---- MODULE Spec2Model ----
(***************************************************************************)
(* Model of src/apps/chat/components/composer/WebInputModal.tsx:           *)
(* the WebInputModal dialog (a react-hook-form field array of URL inputs,  *)
(* quick-add chips for the URLs detected in the composer text, submit) and *)
(* the useWebInputModal hook that opens and closes it.                     *)
(*                                                                         *)
(* Strings are sequences of tokens: SP is one whitespace character, H the  *)
(* scheme prefix "https://", A and B two host names without whitespace,    *)
(* colon or slash.  formFields is read as the current value of the form's  *)
(* 'links' array: a text edit of input i is visible in formFields[i].      *)
(***************************************************************************)
EXTENDS Integers, Sequences, FiniteSets, TLC

\* ---------------------------------------------------------------- strings
SP == " "
H == "https://"
A == "a.com"
B == "b.com"

MAX_URLS == 5

\* longest text a user types into one input
MaxTextLen == 3

\* the texts a user may leave in an input after an edit
TextPool ==
  { <<>>, <<SP>>, <<A>>, <<H, A>>, <<SP, H, A>>, <<A, SP, B>>, <<SP, A, SP, SP>> }

Texts == { t \in TextPool : Len(t) <= MaxTextLen }

\* the composer drafts the hook is rendered with
ComposerTexts == { <<A, SP, SP>>, <<H, A>>, <<H, A, SP, H, B>> }

\* identities of the onAttachWebLinks callback the caller passes
CallbackIds == { 1, 2 }

\* String.prototype.trim
RECURSIVE trimStart(_)
trimStart(s) == IF s # <<>> /\ Head(s) = SP THEN trimStart(Tail(s)) ELSE s

RECURSIVE trimEnd(_)
trimEnd(s) ==
  IF s # <<>> /\ s[Len(s)] = SP THEN trimEnd(SubSeq(s, 1, Len(s) - 1)) ELSE s

trim(s) == trimEnd(trimStart(s))

\* null result of asValidURL; the callers only test its truthiness
NULL == <<>>

\* /^https?:\/\/\S+$/
isSchemeUrl(t) ==
  /\ Len(t) >= 2
  /\ t[1] = H
  /\ \A i \in 2..Len(t) : t[i] # SP

\* a host name without scheme and without whitespace
isBareDomain(t) ==
  /\ Len(t) >= 1
  /\ \A i \in 1..Len(t) : t[i] \notin {SP, H}

asValidURL(textString, relaxProtocol) ==
  IF textString = <<>> THEN NULL
  ELSE LET t == trim(textString) IN
       IF isSchemeUrl(t) THEN t
       ELSE IF relaxProtocol /\ isBareDomain(t) THEN <<H>> \o t
       ELSE NULL

\* end of the whitespace-free run that starts at position i
RECURSIVE runEnd(_, _)
runEnd(text, i) ==
  IF i < Len(text) /\ text[i + 1] # SP THEN runEnd(text, i + 1) ELSE i

\* all matches of /(https?:\/\/\S+)/g from position i on, in text order
RECURSIVE extractFrom(_, _)
extractFrom(text, i) ==
  IF i > Len(text) THEN <<>>
  ELSE IF text[i] = H /\ runEnd(text, i) > i
       THEN <<SubSeq(text, i, runEnd(text, i))>> \o extractFrom(text, runEnd(text, i) + 1)
       ELSE extractFrom(text, i + 1)

extractUrlsFromText(text) == extractFrom(text, 1)

\* ------------------------------------------------------------------ state
VARIABLES
  open,                    \* useWebInputModal: React state 'open'
  composerText,            \* useWebInputModal: argument of the latest render (= composerTextRef.current)
  onAttachWebLinks,        \* useWebInputModal: callback identity of the latest render
  webInputDialogComponent, \* memoized element: NotRendered, or the props of <WebInputModal>
  formFields,              \* WebInputModal: the 'links' field array; <<>> while no dialog is mounted
  snackbar,                \* key of the snackbar the latest handler raised, "none" if it raised none
  calls,                   \* the prop callbacks the latest handler invoked, in order
  event                    \* the latest handler that ran, with its argument

vars == <<open, composerText, onAttachWebLinks, webInputDialogComponent, formFields, snackbar, calls, event>>

ev(handler, arg) == [handler |-> handler, arg |-> arg]

\* the value 'false' of 'open && <WebInputModal/>': nothing is rendered
NotRendered == <<>>

\* useForm({ values: { links: [{ url: '' }] } })
defaultLinks == << [url |-> <<>>] >>

\* ---------------------------------------------------------------- derived
urlFieldCount == Len(formFields)

\* off by one: a field array that is already full still accepts one more
canAddMoreUrls_OffByOne == urlFieldCount <= MAX_URLS

canAddMoreUrls == urlFieldCount < MAX_URLS

\* the remove button rendered on the last remaining field too
canRemoveUrl_LastField == urlFieldCount > 0

\* the remove button is rendered only while more than one field exists
canRemoveUrl == urlFieldCount > 1

\* formState.isDirty: the values differ from the default values
formIsDirty == formFields # defaultLinks

\* formState.isValid under rules = { required }: no input is the empty string
formIsValid == \A i \in 1..Len(formFields) : formFields[i].url # <<>>

\* props.composerText of the mounted dialog
propsComposerText == webInputDialogComponent[1].composerText

extractedComposerUrls ==
  IF webInputDialogComponent = NotRendered THEN <<>>
  ELSE extractUrlsFromText(propsComposerText)

\* useFieldArray operations
formFieldsAppend(fields, value) == Append(fields, value)

formFieldsRemove(fields, index) ==
  SubSeq(fields, 1, index - 1) \o SubSeq(fields, index + 1, Len(fields))

formFieldsUpdate(fields, index, value) == [fields EXCEPT ![index] = value]

\* Array.prototype.findIndex, 1-based, 0 when nothing matches
RECURSIVE findEmptyFrom(_, _)
findEmptyFrom(fields, i) ==
  IF i > Len(fields) THEN 0
  ELSE IF trim(fields[i].url) = <<>> THEN i
  ELSE findEmptyFrom(fields, i + 1)

\* ---------------------------------------------------------------- handlers
\* the reduce pushing the trimmed text instead of the normalized URL
RECURSIVE cleanUrls_PushTrimmed(_, _)
cleanUrls_PushTrimmed(links, acc) ==
  IF links = <<>> THEN acc
  ELSE LET trimmed == trim(Head(links).url)
           relaxedUrl == asValidURL(trimmed, TRUE)
       IN IF trimmed # <<>> /\ relaxedUrl # NULL
          THEN cleanUrls_PushTrimmed(Tail(links), Append(acc, [url |-> trimmed]))
          ELSE cleanUrls_PushTrimmed(Tail(links), acc)

\* the reduce of handleSubmit; acc is the accumulator
RECURSIVE cleanUrls(_, _)
cleanUrls(links, acc) ==
  IF links = <<>> THEN acc
  ELSE LET trimmed == trim(Head(links).url)
           relaxedUrl == asValidURL(trimmed, TRUE)
       IN IF trimmed # <<>> /\ relaxedUrl # NULL
          THEN cleanUrls(Tail(links), Append(acc, [url |-> relaxedUrl]))
          ELSE cleanUrls(Tail(links), acc)

\* handleSubmit closing the dialog before it hands the links over
handleSubmit_CloseFirst(links) ==
  LET clean == cleanUrls(links, <<>>) IN
  IF Len(clean) = 0
  THEN [snackbar |-> "invalid-urls", calls |-> <<>>]
  ELSE [snackbar |-> "none",
        calls |-> << [fn |-> "onClose", urls |-> <<>>], [fn |-> "onWebLinks", urls |-> clean] >>]

\* handleSubmit without the early return on an empty list
handleSubmit_NoEarlyReturn(links) ==
  LET clean == cleanUrls(links, <<>>) IN
  [snackbar |-> "none",
   calls |-> << [fn |-> "onWebLinks", urls |-> clean], [fn |-> "onClose", urls |-> <<>>] >>]

\* outcome of handleSubmit: the snackbar raised and the callbacks invoked
handleSubmit(links) ==
  LET clean == cleanUrls(links, <<>>) IN
  IF Len(clean) = 0
  THEN [snackbar |-> "invalid-urls", calls |-> <<>>]
  ELSE [snackbar |-> "none",
        calls |-> << [fn |-> "onWebLinks", urls |-> clean], [fn |-> "onClose", urls |-> <<>>] >>]

\* handleAddUrl that always appends, never reusing an empty field
handleAddUrl_AppendOnly(newUrl) ==
  IF ~canAddMoreUrls
  THEN [fields |-> formFields, snackbar |-> "max-urls"]
  ELSE IF \E i \in 1..Len(formFields) : formFields[i].url = newUrl
  THEN [fields |-> formFields, snackbar |-> "duplicate-url"]
  ELSE [fields |-> formFieldsAppend(formFields, [url |-> newUrl]), snackbar |-> "none"]

\* handleAddUrl without the 'already in' check
handleAddUrl_NoExistsCheck(newUrl) ==
  IF ~canAddMoreUrls
  THEN [fields |-> formFields, snackbar |-> "max-urls"]
  ELSE LET emptyFieldIndex == findEmptyFrom(formFields, 1) IN
       IF emptyFieldIndex >= 1
       THEN [fields |-> formFieldsUpdate(formFields, emptyFieldIndex, [url |-> newUrl]), snackbar |-> "none"]
       ELSE [fields |-> formFieldsAppend(formFields, [url |-> newUrl]), snackbar |-> "none"]

\* handleAddUrl that fills an empty field before it looks at the field count
handleAddUrl_FillBlankFirst(newUrl) ==
  LET emptyFieldIndex == findEmptyFrom(formFields, 1) IN
  IF \E i \in 1..Len(formFields) : formFields[i].url = newUrl
  THEN [fields |-> formFields, snackbar |-> "duplicate-url"]
  ELSE IF emptyFieldIndex >= 1
  THEN [fields |-> formFieldsUpdate(formFields, emptyFieldIndex, [url |-> newUrl]), snackbar |-> "none"]
  ELSE IF ~canAddMoreUrls
  THEN [fields |-> formFields, snackbar |-> "max-urls"]
  ELSE [fields |-> formFieldsAppend(formFields, [url |-> newUrl]), snackbar |-> "none"]

\* outcome of handleAddUrl: the field array and the snackbar raised
handleAddUrl(newUrl) ==
  IF ~canAddMoreUrls
  THEN [fields |-> formFields, snackbar |-> "max-urls"]
  ELSE IF \E i \in 1..Len(formFields) : formFields[i].url = newUrl
  THEN [fields |-> formFields, snackbar |-> "duplicate-url"]
  ELSE LET emptyFieldIndex == findEmptyFrom(formFields, 1) IN
       IF emptyFieldIndex >= 1
       THEN [fields |-> formFieldsUpdate(formFields, emptyFieldIndex, [url |-> newUrl]), snackbar |-> "none"]
       ELSE [fields |-> formFieldsAppend(formFields, [url |-> newUrl]), snackbar |-> "none"]

\* the element rebuilt on every render, reading composerTextRef.current each time
memoDialog_NoMemo(prev, depsChanged, isOpen, cb, text) ==
  IF isOpen THEN << [composerText |-> text, onWebLinks |-> cb] >> ELSE NotRendered

\* useMemo(() => open && <WebInputModal .../>, [onAttachWebLinks, open]) on a render
\* with state isOpen and arguments (cb, text); prev is the memoized value
memoDialog(prev, depsChanged, isOpen, cb, text) ==
  IF depsChanged
  THEN IF isOpen THEN << [composerText |-> text, onWebLinks |-> cb] >> ELSE NotRendered
  ELSE prev

\* ----------------------------------------------------------------- actions
\* the caller re-renders the hook with a (possibly) new draft and callback
Rerender(text, cb) ==
  /\ composerText' = text
  /\ onAttachWebLinks' = cb
  /\ webInputDialogComponent' =
       memoDialog(webInputDialogComponent, cb # onAttachWebLinks, open, cb, text)
  /\ UNCHANGED <<open, formFields, snackbar, calls, event>>

\* openWebInputDialog: setOpen(true), then the render that mounts the dialog
OpenWebInputDialog ==
  /\ ~open
  /\ open' = TRUE
  /\ webInputDialogComponent' =
       memoDialog(webInputDialogComponent, TRUE, TRUE, onAttachWebLinks, composerText)
  /\ formFields' = defaultLinks
  /\ snackbar' = "none"
  /\ calls' = <<>>
  /\ event' = ev("openWebInputDialog", <<>>)
  /\ UNCHANGED <<composerText, onAttachWebLinks>>

\* GoodModal onClose (Cancel, backdrop): handleClose -> onClose -> setOpen(false)
Close ==
  /\ open
  /\ open' = FALSE
  /\ webInputDialogComponent' =
       memoDialog(webInputDialogComponent, TRUE, FALSE, onAttachWebLinks, composerText)
  /\ formFields' = <<>>
  /\ snackbar' = "none"
  /\ calls' = << [fn |-> "onClose", urls |-> <<>>] >>
  /\ event' = ev("handleClose", <<>>)
  /\ UNCHANGED <<composerText, onAttachWebLinks>>

\* Controller onChange of input i
TypeText(i, t) ==
  /\ open
  /\ i \in 1..Len(formFields)
  /\ formFields' = [formFields EXCEPT ![i] = [url |-> t]]
  /\ snackbar' = "none"
  /\ calls' = <<>>
  /\ event' = ev("onChange", <<>>)
  /\ UNCHANGED <<open, composerText, onAttachWebLinks, webInputDialogComponent>>

\* the 'Another' button
Another ==
  /\ open
  /\ formIsDirty
  /\ canAddMoreUrls
  /\ formFields' = formFieldsAppend(formFields, [url |-> <<>>])
  /\ snackbar' = "none"
  /\ calls' = <<>>
  /\ event' = ev("formFieldsAppend", <<>>)
  /\ UNCHANGED <<open, composerText, onAttachWebLinks, webInputDialogComponent>>

\* the remove button of field i
Remove(i) ==
  /\ open
  /\ canRemoveUrl
  /\ i \in 1..Len(formFields)
  /\ formFields' = formFieldsRemove(formFields, i)
  /\ snackbar' = "none"
  /\ calls' = <<>>
  /\ event' = ev("formFieldsRemove", i)
  /\ UNCHANGED <<open, composerText, onAttachWebLinks, webInputDialogComponent>>

\* click on the k-th detected-URL chip
ChipClick(k) ==
  /\ open
  /\ k \in 1..Len(extractedComposerUrls)
  /\ LET r == handleAddUrl(extractedComposerUrls[k]) IN
       /\ formFields' = r.fields
       /\ snackbar' = r.snackbar
  /\ calls' = <<>>
  /\ event' = ev("handleAddUrl", extractedComposerUrls[k])
  /\ UNCHANGED <<open, composerText, onAttachWebLinks, webInputDialogComponent>>

\* the Import button: formHandleSubmit(handleSubmit)
Submit ==
  /\ open
  /\ formIsValid
  /\ formIsDirty
  /\ LET r == handleSubmit(formFields) IN
       /\ snackbar' = r.snackbar
       /\ calls' = r.calls
       /\ IF r.calls = <<>>
          THEN UNCHANGED <<open, webInputDialogComponent, formFields>>
          ELSE /\ open' = FALSE
               /\ webInputDialogComponent' =
                    memoDialog(webInputDialogComponent, TRUE, FALSE, onAttachWebLinks, composerText)
               /\ formFields' = <<>>
  /\ event' = ev("handleSubmit", formFields)
  /\ UNCHANGED <<composerText, onAttachWebLinks>>

\* ---------------------------------------------------------- specifications
Init ==
  /\ open = FALSE
  /\ composerText \in ComposerTexts
  /\ onAttachWebLinks = 1
  /\ webInputDialogComponent = NotRendered
  /\ formFields = <<>>
  /\ snackbar = "none"
  /\ calls = <<>>
  /\ event = ev("none", <<>>)

\* one dialog session after another over a fixed draft: every form operation
Next ==
  \/ OpenWebInputDialog
  \/ Close
  \/ \E i \in 1..MAX_URLS, t \in Texts : TypeText(i, t)
  \/ Another
  \/ \E i \in 1..MAX_URLS : Remove(i)
  \/ \E k \in 1..MAX_URLS : ChipClick(k)
  \/ Submit

Spec == Init /\ [][Next]_vars

\* the hook under re-renders of its caller; the form is filled from the chips
NextHook ==
  \/ \E text \in ComposerTexts, cb \in CallbackIds : Rerender(text, cb)
  \/ OpenWebInputDialog
  \/ Close
  \/ Another
  \/ \E i \in 1..MAX_URLS : Remove(i)
  \/ \E k \in 1..MAX_URLS : ChipClick(k)
  \/ Submit

SpecHook == Init /\ [][NextHook]_vars

\* ------------------------------------------------------------------ claims
\* a field is blank when nothing is left of its text after trimming
isBlank(field) == trim(field.url) = <<>>

\* a field yields a URL when it is not blank and the relaxed validation accepts it
yieldsUrl(field) == ~isBlank(field) /\ asValidURL(trim(field.url), TRUE) # NULL

holdsUrl(fields, u) == \E i \in 1..Len(fields) : fields[i].url = u

blankIndexes(fields) == { i \in 1..Len(fields) : isBlank(fields[i]) }

firstBlank(fields) ==
  CHOOSE i \in blankIndexes(fields) : \A j \in blankIndexes(fields) : i <= j

\* u was written into field b and every other field kept its value and position
filledAt(before, after, b, u) ==
  /\ Len(after) = Len(before)
  /\ after[b].url = u
  /\ \A i \in 1..Len(before) : i # b => after[i] = before[i]

\* u became a new last field and every other field kept its value and position
appendedLast(before, after, u) ==
  /\ Len(after) = Len(before) + 1
  /\ after[Len(after)].url = u
  /\ \A i \in 1..Len(before) : after[i] = before[i]

nonBlankDistinct(fields) ==
  \A i, j \in 1..Len(fields) :
    (i < j /\ ~isBlank(fields[i]) /\ ~isBlank(fields[j])) => fields[i].url # fields[j].url

\* the handler that ran last was a chip click; event.arg is the chip's URL
chipClicked == event.handler = "handleAddUrl"

deliveredLists == { calls[i].urls : i \in { j \in 1..Len(calls) : calls[j].fn = "onWebLinks" } }

\* C1: the form never has more than MAX_URLS fields, and no list handed to
\* onWebLinks has more than MAX_URLS entries.
C1_AtMostMaxUrls ==
  /\ Len(formFields) <= MAX_URLS
  /\ \A urls \in deliveredLists : Len(urls) <= MAX_URLS

C1_Witness ==
  /\ event.handler = "handleSubmit"
  /\ Len(event.arg) = MAX_URLS
  /\ \E urls \in deliveredLists : Len(urls) = MAX_URLS

\* C2: the list handed to onWebLinks on submit is, in field order, the relaxed
\* normalization of the trimmed text of exactly the fields that are not blank
\* and validate; every entry is a whitespace-free URL that starts with the scheme.
C2_SubmitDeliversNormalized ==
  event.handler = "handleSubmit" =>
    LET kept == SelectSeq(event.arg, yieldsUrl) IN
    IF kept = <<>> THEN deliveredLists = {}
    ELSE /\ deliveredLists =
              { [i \in 1..Len(kept) |-> [url |-> asValidURL(trim(kept[i].url), TRUE)]] }
         /\ \A urls \in deliveredLists : \A i \in 1..Len(urls) : isSchemeUrl(urls[i].url)

C2_Witness ==
  /\ event.handler = "handleSubmit"
  /\ event.arg = << [url |-> <<SP>>], [url |-> <<A, SP, B>>], [url |-> <<A>>], [url |-> <<SP, H, A>>] >>
  /\ deliveredLists = { << [url |-> <<H, A>>], [url |-> <<H, A>>] >> }

\* C3: no two entries of a list handed to onWebLinks are the same URL.
C3_DeliveredDeduplicated ==
  \A urls \in deliveredLists :
    \A i, j \in 1..Len(urls) : i # j => urls[i].url # urls[j].url

C5_LinksThenClose ==
  (event.handler = "handleSubmit" /\ \E i \in 1..Len(event.arg) : yieldsUrl(event.arg[i]))
  => /\ Len(calls) = 2
     /\ calls[1].fn = "onWebLinks"
     /\ calls[1].urls # <<>>
     /\ Len(calls[1].urls) = Len(SelectSeq(event.arg, yieldsUrl))
     /\ calls[2].fn = "onClose"
     /\ ~open
     /\ webInputDialogComponent = NotRendered

C5_Witness ==
  /\ event.handler = "handleSubmit"
  /\ Len(event.arg) = 2
  /\ Len(calls) = 2
  /\ ~open

\* C6: a submit in which no field yields a URL raises 'invalid-urls', calls
\* neither onWebLinks nor onClose, and leaves the dialog open with its fields
\* unchanged; onWebLinks never receives an empty list.
C6_NoValidUrlIsAnError ==
  /\ (event.handler = "handleSubmit" /\ \A i \in 1..Len(event.arg) : ~yieldsUrl(event.arg[i]))
     => /\ snackbar = "invalid-urls"
        /\ calls = <<>>
        /\ open
        /\ webInputDialogComponent # NotRendered
        /\ formFields = event.arg
  /\ <<>> \notin deliveredLists

C6_Witness ==
  /\ event.handler = "handleSubmit"
  /\ snackbar = "invalid-urls"
  /\ formFields = << [url |-> <<SP>>], [url |-> <<A, SP, B>>] >>

C9_AtLeastOneField ==
  [][/\ open' => Len(formFields') >= 1
     /\ event'.handler = "formFieldsRemove" =>
          /\ Len(formFields) > 1
          /\ Len(formFields') = Len(formFields) - 1
          /\ \A i \in 1..Len(formFields') :
               formFields'[i] = IF i < event'.arg THEN formFields[i] ELSE formFields[i + 1]]_vars

C9_Witness ==
  /\ open
  /\ event = ev("formFieldsRemove", 1)
  /\ formFields = << [url |-> <<H, B>>] >>

\* C10 as stated: while the dialog stays open its composer text is the one it
\* was opened with, and an opening takes the composer text current then.
C10_Original ==
  [][/\ (open /\ open') => propsComposerText' = propsComposerText
     /\ (~open /\ open') => propsComposerText' = composerText]_vars

\* C10 amended: while the dialog stays open and onAttachWebLinks keeps its
\* identity, composer text changes change neither the dialog's text nor its
\* detected URLs; a render with a new onAttachWebLinks identity hands the open
\* dialog the composer text of that render; an opening takes the composer text
\* current then.
C10_SnapshotUntilCallbackChanges ==
  [][/\ (open /\ open' /\ onAttachWebLinks' = onAttachWebLinks)
        => /\ propsComposerText' = propsComposerText
           /\ extractedComposerUrls' = extractedComposerUrls
     /\ (open /\ open' /\ onAttachWebLinks' # onAttachWebLinks)
        => propsComposerText' = composerText'
     /\ (~open /\ open') => propsComposerText' = composerText]_vars

C10_Witness ==
  /\ open
  /\ propsComposerText = <<H, A>>
  /\ composerText = <<H, A, SP, H, B>>
====
